---------------------------- MODULE Spec2Model ----------------------------
(***************************************************************************)
(* Model of the Casso webhook relay (src/server.js and its earlier         *)
(* revisions under src/unnamed): signature verification, description       *)
(* parsing, and the create-order / webhook handlers working against a      *)
(* Google Sheet used as the order ledger.                                  *)
(*                                                                         *)
(* Texts are tuples of one-character strings; an empty cell, an empty      *)
(* string and "" are all << >>.  A JSON document is a tuple of tokens      *)
(* <<kind, text>>; a parsed JavaScript value is a tagged tuple             *)
(* <<"null">>, <<"bool", b>>, <<"num", n>>, <<"str", text>>,               *)
(* <<"arr", <<v1, ...>>>>, <<"obj", << <<key, v>>, ... >> >> (members in   *)
(* insertion order), and <<"undef">> is JavaScript's undefined.            *)
(***************************************************************************)
EXTENDS Integers, Sequences, FiniteSets, TLC

VARIABLES
    NODE_ENV,       \* process.env.NODE_ENV
    CASSO_SECRET,   \* process.env.CASSO_SECRET
    sheet,          \* rows 2.. of the sheet, columns A..M, as Sheets stores them
    cr,             \* the /create-order requests in flight
    wh,             \* the /casso-webhook requests in flight
    emitted,        \* the payment_success events io.emit has broadcast, in order
    failures,       \* how many Sheets calls and emits have failed so far
    sheets,         \* the module-level Sheets client: "undefined" until initSheets resolves
    fn              \* harness of the pure functions: the call and its result

vars == <<NODE_ENV, CASSO_SECRET, sheet, cr, wh, emitted, failures, sheets, fn>>

---------------------------------------------------------------------------
(* Bounds of the model *)

\* number of /create-order requests the model follows
NumCreate == 2
\* number of /casso-webhook deliveries the model follows
NumWebhook == 2
\* number of Sheets calls and emits that may fail in one behaviour
MaxFailures == 1

---------------------------------------------------------------------------
(* Texts *)

UNDEF == <<"undef">>
JNULL == <<"null">>

Digits == <<"0", "1", "2", "3", "4", "5", "6", "7", "8", "9">>

IsDigit(c) == \E i \in 1..10 : Digits[i] = c

DigitVal(c) == (CHOOSE i \in 1..10 : Digits[i] = c) - 1

IsSpace(c) == c = " "

\* [a-f0-9]
IsHexChar(c) == IsDigit(c) \/ c \in {"a", "b", "c", "d", "e", "f"}

\* The characters the model's texts use, in ascending UTF-16 code unit order.
CodeUnitOrder ==
    <<" ", "-", "0", "1", "2", "3", "4", "5", "6", "7", "8", "9",
      "E", "M", "O", "R", "S", "T",
      "a", "b", "c", "d", "e", "f", "i", "m", "n", "o", "p", "r", "s", "t", "u", "x", "z">>

CodeUnit(c) == CHOOSE i \in 1..Len(CodeUnitOrder) : CodeUnitOrder[i] = c

\* a < b as Array.prototype.sort compares strings: by code units, a proper prefix first
RECURSIVE TextLess(_, _)
TextLess(a, b) ==
    IF b = <<>> THEN FALSE
    ELSE IF a = <<>> THEN TRUE
    ELSE IF a[1] = b[1] THEN TextLess(Tail(a), Tail(b))
    ELSE CodeUnit(a[1]) < CodeUnit(b[1])

\* String.prototype.trim
RECURSIVE TrimLeft(_)
TrimLeft(s) == IF s # <<>> /\ IsSpace(s[1]) THEN TrimLeft(Tail(s)) ELSE s

RECURSIVE TrimRight(_)
TrimRight(s) ==
    IF s # <<>> /\ IsSpace(s[Len(s)]) THEN TrimRight(SubSeq(s, 1, Len(s) - 1)) ELSE s

Trim(s) == TrimRight(TrimLeft(s))

\* the length of the run of digits that starts at s[i]: \d+, greedy
RECURSIVE DigitRun(_, _)
DigitRun(s, i) == IF i <= Len(s) /\ IsDigit(s[i]) THEN 1 + DigitRun(s, i + 1) ELSE 0

\* the value of a text of decimal digits
RECURSIVE DigitsValue(_)
DigitsValue(s) ==
    IF s = <<>> THEN 0 ELSE 10 * DigitsValue(SubSeq(s, 1, Len(s) - 1)) + DigitVal(s[Len(s)])

\* Number.prototype.toString / String(n) of a non-negative integer
RECURSIVE NumToString(_)
NumToString(n) ==
    IF n < 10 THEN <<Digits[n + 1]>> ELSE NumToString(n \div 10) \o <<Digits[(n % 10) + 1]>>

NaN == -1

\* parseInt(text, 10) of a cell's text: leading blanks skipped, then the
\* leading digit run; NaN when there is none (the model has no signs).
parseInt(s) ==
    LET t == TrimLeft(s)
        n == DigitRun(t, 1)
    IN IF n = 0 THEN NaN ELSE DigitsValue(SubSeq(t, 1, n))

---------------------------------------------------------------------------
(* JavaScript values and JSON *)

JStr(s) == <<"str", s>>
JNum(n) == <<"num", n>>
JObj(members) == <<"obj", members>>
JArr(elems) == <<"arr", elems>>

IsStr(v) == v[1] = "str"
IsNum(v) == v[1] = "num"
IsObj(v) == v[1] = "obj"
IsArr(v) == v[1] = "arr"

\* JSON tokens: punctuation, literals, a string with its characters, a number
\* with its digits, insignificant whitespace, and a byte no JSON text allows.
Tok(k) == <<k, <<>>>>
TStr(s) == <<"str", s>>
TNum(d) == <<"num", d>>

\* Object.keys(o)
Keys(o) == [i \in 1..Len(o[2]) |-> o[2][i][1]]

HasKey(o, k) == \E i \in 1..Len(o[2]) : o[2][i][1] = k

\* o[k] of an object; undefined when o has no such property
Get(o, k) ==
    IF IsObj(o) /\ HasKey(o, k)
    THEN o[2][CHOOSE i \in 1..Len(o[2]) : o[2][i][1] = k][2]
    ELSE UNDEF

\* o[k] = v on a list of members: an existing property keeps its place
SetMember(ms, k, v) ==
    IF \E i \in 1..Len(ms) : ms[i][1] = k
    THEN [i \in 1..Len(ms) |-> IF ms[i][1] = k THEN <<k, v>> ELSE ms[i]]
    ELSE Append(ms, <<k, v>>)

\* truthiness: false for undefined, null, false, 0, NaN and ""
Truthy(v) ==
    CASE v[1] = "undef" -> FALSE
      [] v[1] = "null"  -> FALSE
      [] v[1] = "bool"  -> v[2]
      [] v[1] = "num"   -> v[2] # 0 /\ v[2] # NaN
      [] v[1] = "str"   -> v[2] # <<>>
      [] OTHER          -> TRUE

RECURSIVE SkipWs(_, _)
SkipWs(toks, i) ==
    IF i <= Len(toks) /\ toks[i][1] = "ws" THEN SkipWs(toks, i + 1) ELSE i

ParseFail == <<FALSE, UNDEF, 0>>

\* a JSON number token is well formed: digits, no leading zero
NumberOk(d) == d # <<>> /\ (\A i \in 1..Len(d) : IsDigit(d[i])) /\ (Len(d) = 1 \/ d[1] # "0")

\* a key that is an array index ("0", "9", "10"): such properties come first
\* in an object's own-property order, ascending by value
IsIndexKey(k) == NumberOk(k)

\* members with index keys, ascending by the value of the key
RECURSIVE SortByIndex(_)
SortByIndex(ms) ==
    IF ms = <<>> THEN <<>>
    ELSE LET m == CHOOSE i \in 1..Len(ms) :
                     \A j \in 1..Len(ms) : DigitsValue(ms[i][1]) <= DigitsValue(ms[j][1])
         IN <<ms[m]>> \o SortByIndex([i \in 1..(Len(ms) - 1) |-> IF i < m THEN ms[i] ELSE ms[i + 1]])

\* the own properties of an object whose properties were created in the
\* order ms: index keys first, then the other keys in creation order
OwnProperties(ms) ==
    SortByIndex(SelectSeq(ms, LAMBDA m : IsIndexKey(m[1])))
    \o SelectSeq(ms, LAMBDA m : ~IsIndexKey(m[1]))

\* The JSON grammar on tokens: <<ok, value, index after the value>>.
RECURSIVE ParseValue(_, _), ParseMembers(_, _, _), ParseElements(_, _, _)
ParseValue(toks, i0) ==
    LET i == SkipWs(toks, i0)
    IN IF i > Len(toks) THEN ParseFail
       ELSE LET k == toks[i][1]
            IN CASE k = "str"   -> <<TRUE, JStr(toks[i][2]), i + 1>>
                 [] k = "num"   -> IF NumberOk(toks[i][2])
                                   THEN <<TRUE, JNum(DigitsValue(toks[i][2])), i + 1>>
                                   ELSE ParseFail
                 [] k = "null"  -> <<TRUE, JNULL, i + 1>>
                 [] k = "true"  -> <<TRUE, <<"bool", TRUE>>, i + 1>>
                 [] k = "false" -> <<TRUE, <<"bool", FALSE>>, i + 1>>
                 [] k = "{"     -> LET j == SkipWs(toks, i + 1)
                                   IN IF j <= Len(toks) /\ toks[j][1] = "}"
                                      THEN <<TRUE, JObj(<<>>), j + 1>>
                                      ELSE ParseMembers(toks, j, <<>>)
                 [] k = "["     -> LET j == SkipWs(toks, i + 1)
                                   IN IF j <= Len(toks) /\ toks[j][1] = "]"
                                      THEN <<TRUE, JArr(<<>>), j + 1>>
                                      ELSE ParseElements(toks, j, <<>>)
                 [] OTHER       -> ParseFail

\* the members of an object from the key at toks[i] on; a repeated key overwrites
ParseMembers(toks, i, acc) ==
    LET c == SkipWs(toks, i + 1)
    IN IF i > Len(toks) \/ toks[i][1] # "str" THEN ParseFail
       ELSE IF c > Len(toks) \/ toks[c][1] # ":" THEN ParseFail
       ELSE LET r == ParseValue(toks, c + 1)
                e == SkipWs(toks, r[3])
                ms == SetMember(acc, toks[i][2], r[2])
            IN IF ~r[1] \/ e > Len(toks) THEN ParseFail
               ELSE IF toks[e][1] = "}" THEN <<TRUE, JObj(OwnProperties(ms)), e + 1>>
               ELSE IF toks[e][1] = "," THEN ParseMembers(toks, SkipWs(toks, e + 1), ms)
               ELSE ParseFail

ParseElements(toks, i, acc) ==
    LET r == ParseValue(toks, i)
        e == SkipWs(toks, r[3])
    IN IF ~r[1] \/ e > Len(toks) THEN ParseFail
       ELSE IF toks[e][1] = "]" THEN <<TRUE, JArr(Append(acc, r[2])), e + 1>>
       ELSE IF toks[e][1] = "," THEN ParseElements(toks, e + 1, Append(acc, r[2]))
       ELSE ParseFail

\* JSON.parse(text): <<TRUE, value>>, or <<FALSE, undefined>> for a SyntaxError.
\* undefined is converted to the text "undefined", which is no JSON.
JSONparse(text) ==
    IF ~IsStr(text) THEN <<FALSE, UNDEF>>
    ELSE LET r == ParseValue(text[2], 1)
         IN IF r[1] /\ SkipWs(text[2], r[3]) = Len(text[2]) + 1
            THEN <<TRUE, r[2]>>
            ELSE <<FALSE, UNDEF>>

\* the concatenation of a tuple of token tuples
RECURSIVE Flatten(_)
Flatten(ss) == IF ss = <<>> THEN <<>> ELSE ss[1] \o Flatten(Tail(ss))

\* JSON.stringify(v) with no indent: the compact token text of v
RECURSIVE JSONstringify(_)
JSONstringify(v) ==
    CASE v[1] = "str"  -> <<TStr(v[2])>>
      [] v[1] = "num"  -> <<TNum(NumToString(v[2]))>>
      [] v[1] = "null" -> <<Tok("null")>>
      [] v[1] = "bool" -> <<Tok(IF v[2] THEN "true" ELSE "false")>>
      [] v[1] = "arr"  ->
            <<Tok("[")>>
            \o Flatten([i \in 1..Len(v[2]) |->
                   (IF i > 1 THEN <<Tok(",")>> ELSE <<>>) \o JSONstringify(v[2][i])])
            \o <<Tok("]")>>
      [] v[1] = "obj"  ->
            <<Tok("{")>>
            \o Flatten([i \in 1..Len(v[2]) |->
                   (IF i > 1 THEN <<Tok(",")>> ELSE <<>>)
                   \o <<TStr(v[2][i][1]), Tok(":")>> \o JSONstringify(v[2][i][2])])
            \o <<Tok("}")>>

\* Array.prototype.sort() on keys: ascending by code units
RECURSIVE SortKeys(_)
SortKeys(ks) ==
    IF ks = <<>> THEN <<>>
    ELSE LET m == CHOOSE i \in 1..Len(ks) : \A j \in 1..Len(ks) : ~TextLess(ks[j], ks[i])
         IN <<ks[m]>> \o SortKeys([i \in 1..(Len(ks) - 1) |-> IF i < m THEN ks[i] ELSE ks[i + 1]])

\* a canonicalization that does not look inside arrays
RECURSIVE sortObjDataByKey_ShallowArrays(_)
sortObjDataByKey_ShallowArrays(data) ==
    IF ~IsObj(data) THEN data
    ELSE LET ks == SortKeys(Keys(data))
         IN JObj(OwnProperties([i \in 1..Len(ks) |->
                    <<ks[i], sortObjDataByKey_ShallowArrays(Get(data, ks[i]))>>]))

\* sortObjDataByKey: the keys of every object sorted, recursively; arrays keep order
RECURSIVE sortObjDataByKey(_)
sortObjDataByKey(data) ==
    IF ~(IsObj(data) \/ IsArr(data)) THEN data
    ELSE IF IsArr(data) THEN JArr([i \in 1..Len(data[2]) |-> sortObjDataByKey(data[2][i])])
    ELSE LET ks == SortKeys(Keys(data))
         IN JObj(OwnProperties([i \in 1..Len(ks) |-> <<ks[i], sortObjDataByKey(Get(data, ks[i]))>>]))

\* The earlier revision's canonicalization.

\* String(v) of a primitive
StringOfPrimitive(v) ==
    CASE v[1] = "str"  -> v[2]
      [] v[1] = "num"  -> NumToString(v[2])
      [] v[1] = "bool" -> IF v[2] THEN <<"t", "r", "u", "e">> ELSE <<"f", "a", "l", "s", "e">>

\* normalizeValues: null and undefined become "", every other primitive its
\* string, the keys of every object sorted, recursively; arrays keep order
RECURSIVE normalizeValues(_)
normalizeValues(obj) ==
    IF obj[1] = "null" \/ obj[1] = "undef" THEN JStr(<<>>)
    ELSE IF ~(IsObj(obj) \/ IsArr(obj)) THEN JStr(StringOfPrimitive(obj))
    ELSE IF IsArr(obj) THEN JArr([i \in 1..Len(obj[2]) |-> normalizeValues(obj[2][i])])
    ELSE LET ks == SortKeys(Keys(obj))
         IN JObj(OwnProperties([i \in 1..Len(ks) |-> <<ks[i], normalizeValues(Get(obj, ks[i]))>>]))

---------------------------------------------------------------------------
(* Signature verification *)

\* A header is a text whose elements are characters <<"c", ch>> and digests
\* <<"hex", d>>, a digest standing for the run of lowercase hex digits that
\* renders d.
Ch(c) == <<"c", c>>
HexOf(d) == <<"hex", d>>
Chars(s) == [i \in 1..Len(s) |-> Ch(s[i])]

IsDigitTok(x) == x[1] = "c" /\ IsDigit(x[2])
IsHexTok(x) == x[1] = "hex" \/ (x[1] = "c" /\ IsHexChar(x[2]))

\* the lengths of the runs \d+ and [a-f0-9]+ that start at h[i], greedy
RECURSIVE DigitTokRun(_, _)
DigitTokRun(h, i) == IF i <= Len(h) /\ IsDigitTok(h[i]) THEN 1 + DigitTokRun(h, i + 1) ELSE 0

RECURSIVE HexTokRun(_, _)
HexTokRun(h, i) == IF i <= Len(h) /\ IsHexTok(h[i]) THEN 1 + HexTokRun(h, i + 1) ELSE 0

\* crypto.createHmac(alg, secret).update(message).digest("hex"), as an
\* injective function of the algorithm, the key and the message
createHmac(alg, secret, message) == <<HexOf(<<alg, secret, message>>)>>

\* h has the characters lit from index i on
LiteralAt(h, i, lit) ==
    /\ i + Len(lit) - 1 <= Len(h)
    /\ \A k \in 1..Len(lit) : h[i + k - 1] = Ch(lit[k])

\* /t=(\d+),v1=([a-f0-9]+)/ matches h at index i
SigMatchAt(h, i) ==
    LET n == DigitTokRun(h, i + 2)
    IN /\ LiteralAt(h, i, <<"t", "=">>)
       /\ n >= 1
       /\ LiteralAt(h, i + 2 + n, <<",", "v", "1", "=">>)
       /\ HexTokRun(h, i + 6 + n) >= 1

\* signatureHeader.match(/t=(\d+),v1=([a-f0-9]+)/): <<matched, t, v1>> of the
\* leftmost match, both runs greedy
SigMatch(h) ==
    IF \E i \in 1..Len(h) : SigMatchAt(h, i)
    THEN LET i == CHOOSE a \in 1..Len(h) :
                    SigMatchAt(h, a) /\ \A b \in 1..(a - 1) : ~SigMatchAt(h, b)
             n == DigitTokRun(h, i + 2)
             m == HexTokRun(h, i + 6 + n)
         IN <<TRUE, [k \in 1..n |-> h[i + 1 + k][2]], SubSeq(h, i + 6 + n, i + 5 + n + m)>>
    ELSE <<FALSE, <<>>, <<>>>>

\* Lines 57 to 86 of verifyCassoSignature, past the development bypass:
\* "true", "false", or "throw" when the call raises instead of returning
SignatureCheck(rawBody, signatureHeader, secret) ==
    IF ~Truthy(signatureHeader) \/ ~Truthy(secret) THEN "false"
    ELSE LET match == SigMatch(signatureHeader[2])
             parsed == JSONparse(rawBody)
             body == parsed[2]
             dataObj == IF Truthy(Get(body, <<"d", "a", "t", "a">>))
                        THEN Get(body, <<"d", "a", "t", "a">>)
                        ELSE JObj(<<>>)
             jsonSorted == JSONstringify(sortObjDataByKey(dataObj))
             messageToSign == <<match[2], jsonSorted>>
             hmac == createHmac("sha512", secret[2], messageToSign)
         IN IF ~match[1] THEN "false"
            ELSE IF ~parsed[1] THEN "false"
            ELSE IF body[1] = "null" THEN "throw"      \* body.data of null: TypeError
            ELSE IF hmac = match[3] THEN "true" ELSE "false"

\* verifyCassoSignature: the development bypass, then the check
verifyCassoSignature(rawBody, signatureHeader, secret) ==
    IF NODE_ENV = "development" THEN "true"
    ELSE SignatureCheck(rawBody, signatureHeader, secret)

\* The earlier revision of verifyCassoSignature (HMAC-SHA256 over the raw body).

\* s.split(sep) on a header text: the pieces between the separators
RECURSIVE SplitOn(_, _, _)
SplitOn(h, sep, piece) ==
    IF h = <<>> THEN <<piece>>
    ELSE IF h[1] = Ch(sep) THEN <<piece>> \o SplitOn(Tail(h), sep, <<>>)
    ELSE SplitOn(Tail(h), sep, Append(piece, h[1]))

\* trim() of a header piece
RECURSIVE TrimToks(_)
TrimToks(h) ==
    IF h # <<>> /\ h[1] = Ch(" ") THEN TrimToks(Tail(h))
    ELSE IF h # <<>> /\ h[Len(h)] = Ch(" ") THEN TrimToks(SubSeq(h, 1, Len(h) - 1))
    ELSE h

\* the [k, v] of each segment: v is undefined (here <<"undef">>) without "="
Entries(signatureHeader) ==
    LET segs == SplitOn(signatureHeader, ",", <<>>)
    IN [i \in 1..Len(segs) |->
           LET kv == SplitOn(segs[i], "=", <<>>)
           IN <<kv[1], IF Len(kv) >= 2 THEN <<"str", kv[2]>> ELSE UNDEF>>]

\* parts[key] of Object.fromEntries(entries), the entries trimmed: the last
\* entry of that key wins; << >> stands for undefined
Part(entries, key) ==
    IF \E i \in 1..Len(entries) : TrimToks(entries[i][1]) = Chars(key)
    THEN TrimToks(entries[CHOOSE i \in 1..Len(entries) :
                             /\ TrimToks(entries[i][1]) = Chars(key)
                             /\ \A j \in (i + 1)..Len(entries) :
                                   TrimToks(entries[j][1]) # Chars(key)][2][2])
    ELSE <<>>

verifyCassoSignatureSha256(rawBody, signatureHeader, secret) ==
    IF NODE_ENV = "development" THEN "true"
    ELSE IF ~Truthy(signatureHeader) \/ ~Truthy(secret) THEN "false"
    ELSE LET entries == Entries(signatureHeader[2])
         IN IF \E i \in 1..Len(entries) : entries[i][2][1] = "undef"
            THEN "throw"                               \* v.trim() of undefined: TypeError
            ELSE IF Part(entries, <<"t">>) = <<>> \/ Part(entries, <<"v", "1">>) = <<>>
            THEN "false"
            ELSE IF createHmac("sha256", secret[2], <<Part(entries, <<"t">>), rawBody>>)
                      = Part(entries, <<"v", "1">>)
            THEN "true" ELSE "false"

---------------------------------------------------------------------------
(* Description parsing *)

PREFIX == <<"M", "E", "O", "S", "T", "O", "R", "E">>

\* the upper-case form of the letters the prefix is made of (the /i flag)
toUpperCase(c) ==
    CASE c = "m" -> "M" [] c = "e" -> "E" [] c = "o" -> "O"
      [] c = "s" -> "S" [] c = "t" -> "T" [] c = "r" -> "R" [] OTHER -> c

PrefixAt(s, i) ==
    /\ i + Len(PREFIX) - 1 <= Len(s)
    /\ \A k \in 1..Len(PREFIX) : toUpperCase(s[i + k - 1]) = PREFIX[k]

\* where the digits of /MEOSTORE-?(\d+)/i start for a match at index i; 0 for none
CodeStartAt(s, i) ==
    LET j == i + Len(PREFIX)
        d == IF j <= Len(s) /\ s[j] = "-" /\ DigitRun(s, j + 1) >= 1 THEN j + 1 ELSE j
    IN IF PrefixAt(s, i) /\ DigitRun(s, d) >= 1 THEN d ELSE 0

\* desc.match(/MEOSTORE-?(\d+)/i): <<matched, match[1]>> of the leftmost match
DescMatch(s) ==
    IF \E i \in 1..Len(s) : CodeStartAt(s, i) > 0
    THEN LET i == CHOOSE a \in 1..Len(s) :
                    CodeStartAt(s, a) > 0 /\ \A b \in 1..(a - 1) : CodeStartAt(s, b) = 0
             d == CodeStartAt(s, i)
         IN <<TRUE, SubSeq(s, d, d + DigitRun(s, d) - 1)>>
    ELSE <<FALSE, <<>>>>

\* The earlier revision of the handler: /(?:MEOSTORE[-\s]?)*(\d+)/i on the
\* trimmed description.

\* the first of three positions that is not 0
FirstFound(a, b, c) == IF a # 0 THEN a ELSE IF b # 0 THEN b ELSE c

\* where (\d+) starts for a match of the expression at index i, 0 for none:
\* one more MEOSTORE with its separator, else one more without it, else the
\* digits at i (the quantifiers are greedy)
RECURSIVE LooseCodeStartAt(_, _)
LooseCodeStartAt(s, i) ==
    FirstFound(
        IF PrefixAt(s, i) /\ i + Len(PREFIX) <= Len(s)
              /\ (s[i + Len(PREFIX)] = "-" \/ IsSpace(s[i + Len(PREFIX)]))
        THEN LooseCodeStartAt(s, i + Len(PREFIX) + 1) ELSE 0,
        IF PrefixAt(s, i) THEN LooseCodeStartAt(s, i + Len(PREFIX)) ELSE 0,
        IF DigitRun(s, i) >= 1 THEN i ELSE 0)

\* desc.match(/(?:MEOSTORE[-\s]?)*(\d+)/i): <<matched, match[1]>> of the
\* leftmost match
DescMatchLoose(s) ==
    IF \E i \in 1..Len(s) : LooseCodeStartAt(s, i) > 0
    THEN LET i == CHOOSE a \in 1..Len(s) :
                    LooseCodeStartAt(s, a) > 0 /\ \A b \in 1..(a - 1) : LooseCodeStartAt(s, b) = 0
             d == LooseCodeStartAt(s, i)
         IN <<TRUE, SubSeq(s, d, d + DigitRun(s, d) - 1)>>
    ELSE <<FALSE, <<>>>>

---------------------------------------------------------------------------
(* The sheet *)

\* columns of a row, A = 1 .. M = 13
ColA == 1
ColC == 3
ColG == 7
ColH == 8
ColI == 9
ColK == 11
ColL == 12
ColM == 13

BlankRow == [i \in 1..ColM |-> <<>>]

AWAITING == <<"Cho thanh toan">>     \* "Chờ thanh toán"
PAID == <<"Da thanh toan">>          \* "Đã thanh toán"
NOT_DELIVERED == <<"Chua giao">>     \* "Chưa giao"

\* the text Sheets shows for a value written RAW
CellText(v) ==
    CASE v[1] = "num" -> NumToString(v[2])
      [] v[1] = "str" -> v[2]
      [] OTHER        -> <<>>

\* a row as values.get returns it: trailing empty cells left out
RECURSIVE TrimRow(_)
TrimRow(r) ==
    IF r # <<>> /\ r[Len(r)] = <<>> THEN TrimRow(SubSeq(r, 1, Len(r) - 1)) ELSE r

\* values.get over rows 2.. of columns A..lastCol: the rows down to the last
\* one that has a value, each without its trailing empty cells
RECURSIVE DropEmptyTail(_)
DropEmptyTail(rows) ==
    IF rows # <<>> /\ rows[Len(rows)] = <<>>
    THEN DropEmptyTail(SubSeq(rows, 1, Len(rows) - 1))
    ELSE rows

ValuesGet(lastCol) ==
    DropEmptyTail([i \in 1..Len(sheet) |-> TrimRow(SubSeq(sheet[i], 1, lastCol))])

\* r[0] of a returned row
FirstCell(r) == IF Len(r) >= 1 THEN JStr(r[1]) ELSE UNDEF

\* String(v) of a cell value
StringOf(v) ==
    IF v[1] = "undef" THEN <<"u", "n", "d", "e", "f", "i", "n", "e", "d">> ELSE CellText(v)

\* Math.max(...ns) of a non-empty tuple of naturals
MaxOf(ns) == CHOOSE m \in {ns[i] : i \in 1..Len(ns)} : \A i \in 1..Len(ns) : ns[i] <= m

\* (existingCodes.length ? Math.max(...existingCodes) : 0) + 1 over column A
NextCode(values) ==
    LET parsed == [i \in 1..Len(values) |-> parseInt(StringOf(FirstCell(values[i])))]
        existingCodes == SelectSeq(parsed, LAMBDA n : n # NaN)
    IN (IF Len(existingCodes) > 0 THEN MaxOf(existingCodes) ELSE 0) + 1

\* a lookup that answers the first row when no row matches
FindIndex_FirstRow(values, orderCode) ==
    IF \E i \in 1..Len(values) : Trim(StringOf(FirstCell(values[i]))) = orderCode
    THEN CHOOSE i \in 1..Len(values) :
            /\ Trim(StringOf(FirstCell(values[i]))) = orderCode
            /\ \A j \in 1..(i - 1) : Trim(StringOf(FirstCell(values[j]))) # orderCode
    ELSE IF Len(values) > 0 THEN 1 ELSE 0

\* a lookup that is off by one: the position before the matching row's
FindIndex_OffByOne(values, orderCode) ==
    IF \E i \in 1..Len(values) : Trim(StringOf(FirstCell(values[i]))) = orderCode
    THEN (CHOOSE i \in 1..Len(values) :
            /\ Trim(StringOf(FirstCell(values[i]))) = orderCode
            /\ \A j \in 1..(i - 1) : Trim(StringOf(FirstCell(values[j]))) # orderCode) - 1
    ELSE 0

\* values.findIndex(r => String(r[0]).trim() === orderCode), 1-based; 0 for -1
FindIndex(values, orderCode) ==
    IF \E i \in 1..Len(values) : Trim(StringOf(FirstCell(values[i]))) = orderCode
    THEN CHOOSE i \in 1..Len(values) :
            /\ Trim(StringOf(FirstCell(values[i]))) = orderCode
            /\ \A j \in 1..(i - 1) : Trim(StringOf(FirstCell(values[j]))) # orderCode
    ELSE 0

\* the timestamps of a new order: now.toLocaleString(...) and now.toISOString()
DisplayTs == <<"displayTs">>
IsoTs == <<"isoTs">>

\* orderRow: the twelve values written at A2
OrderRow(nextCode, uid, amount) ==
    << NumToString(nextCode), <<"GAME">>, CellText(uid), <<>>, <<>>, <<"1">>,
       DisplayTs, CellText(amount), NOT_DELIVERED, <<>>, AWAITING, IsoTs >>

\* values.update of `cells` into row n from column `col` on; other cells kept
UpdateRow(rows, n, col, cells) ==
    [rows EXCEPT ![n] =
        [k \in 1..ColM |-> IF k >= col /\ k < col + Len(cells) THEN cells[k - col + 1] ELSE @[k]]]

---------------------------------------------------------------------------
(* The requests the model delivers *)

KeyError == <<"e", "r", "r", "o", "r">>
KeyData == <<"d", "a", "t", "a">>
KeyId == <<"i", "d">>
KeyAmount == <<"a", "m", "o", "u", "n", "t">>
KeyDescription == <<"d", "e", "s", "c", "r", "i", "p", "t", "i", "o", "n">>

\* the secret the aggregator signs with, and another one
SecretK == <<"k", "1">>
SecretJ == <<"k", "2">>

\* a transaction record as the aggregator sends it: id, amount, description
Tx(id, amount, description) ==
    JObj(<< <<KeyId, id>>, <<KeyAmount, amount>>, <<KeyDescription, description>> >>)

\* the text of a webhook body { error, data }
BodyText(error, data) == JStr(JSONstringify(JObj(<< <<KeyError, error>>, <<KeyData, data>> >>)))

\* the v1 digest the aggregator puts in the header: HMAC-SHA512, keyed by
\* the secret, of "<t>.<key-sorted JSON of data>"
Sign(secret, t, data) ==
    createHmac("sha512", secret, <<t, JSONstringify(sortObjDataByKey(data))>>)

\* the header text "t=<t>,v1=<digest>"
SigHeader(t, digest) ==
    JStr(Chars(<<"t", "=">>) \o Chars(t) \o Chars(<<",", "v", "1", "=">>) \o digest)

\* a delivery of { error, data } signed by the aggregator with `secret`
Delivery(secret, error, data) ==
    [rawBody |-> BodyText(error, data), signature |-> SigHeader(<<"1", "7">>, Sign(secret, <<"1", "7">>, data))]

Desc(code) == JStr(<<"p", "a", "y", " ">> \o PREFIX \o <<"-">> \o code)

Tx1 == Tx(JNum(7), JNum(5), Desc(<<"1">>))
Tx2 == Tx(JNum(8), JNum(3), Desc(<<"2">>))

\* a transfer for order 1 whose record carries no id
TxNoId == JObj(<< <<KeyAmount, JNum(5)>>, <<KeyDescription, Desc(<<"1">>)>> >>)

\* The deliveries of the model: a paid transfer for order 1 and one for order
\* 2, a forged copy of the first (signed with another secret), a failed
\* transfer (error = 1), an event without data, a transfer whose description
\* names no order, a body that is no JSON, a request without a body, and a
\* paid transfer for order 1 without an id.
Deliveries ==
    { Delivery(SecretK, JNum(0), Tx1),
      Delivery(SecretK, JNum(0), Tx2),
      Delivery(SecretK, JNum(0), TxNoId),
      Delivery(SecretJ, JNum(0), Tx1),
      Delivery(SecretK, JNum(1), Tx1),
      [rawBody |-> JStr(JSONstringify(JObj(<< <<KeyError, JNum(0)>> >>))),
       signature |-> SigHeader(<<"1", "7">>, Sign(SecretK, <<"1", "7">>, JObj(<<>>)))],
      Delivery(SecretK, JNum(0), Tx(JNum(9), JNum(5), JStr(<<"p", "a", "y">>))),
      [rawBody |-> JStr(<<Tok("{"), Tok("junk")>>), signature |-> JStr(<<>>)],
      [rawBody |-> UNDEF, signature |-> JStr(<<>>)] }

\* the { uid, amount } bodies of the create-order requests
CreateBodies ==
    { [uid |-> JStr(<<"u", "1">>), amount |-> JNum(5)],
      [uid |-> UNDEF, amount |-> JNum(5)],
      [uid |-> JStr(<<"u", "1">>), amount |-> JNum(0)] }

---------------------------------------------------------------------------
(* POST /create-order *)

Creates == 1..NumCreate
Webhooks == 1..NumWebhook

IdleCreate == [pc |-> "idle", uid |-> UNDEF, amount |-> UNDEF, nextCode |-> 0,
               status |-> 0, orderCode |-> <<>>]

\* a Sheets call either answers or rejects; a rejection is counted
CallOutcomes == IF failures < MaxFailures THEN {TRUE, FALSE} ELSE {TRUE}

\* res.status(500).json(...) of the catch block
CreateFails(c) ==
    /\ cr' = [cr EXCEPT ![c].pc = "done", ![c].status = 500]
    /\ failures' = failures + 1
    /\ UNCHANGED sheet

\* the request arrives: 400 when uid or amount is missing, else values.get is
\* sent; while sheets is undefined, sheets.spreadsheets raises a TypeError and
\* the catch block answers 500
CreateRequest(c, body) ==
    /\ cr[c].pc = "idle"
    /\ IF ~Truthy(body.uid) \/ ~Truthy(body.amount)
       THEN cr' = [cr EXCEPT ![c].pc = "done", ![c].status = 400]
       ELSE IF sheets = "undefined"
       THEN cr' = [cr EXCEPT ![c].pc = "done", ![c].status = 500,
                             ![c].uid = body.uid, ![c].amount = body.amount]
       ELSE cr' = [cr EXCEPT ![c].pc = "getCodes", ![c].uid = body.uid, ![c].amount = body.amount]
    /\ UNCHANGED <<sheet, wh, emitted, failures, NODE_ENV, CASSO_SECRET, sheets, fn>>

\* values.get of A2:A answers: nextCode = max + 1
CreateGetCodes(c) ==
    /\ cr[c].pc = "getCodes"
    /\ \E ok \in CallOutcomes :
          IF ok
          THEN /\ cr' = [cr EXCEPT ![c].pc = "getMeta", ![c].nextCode = NextCode(ValuesGet(ColA))]
               /\ UNCHANGED <<sheet, failures>>
          ELSE CreateFails(c)
    /\ UNCHANGED <<wh, emitted, NODE_ENV, CASSO_SECRET, sheets, fn>>

\* spreadsheets.get answers with the sheet's id
CreateGetMeta(c) ==
    /\ cr[c].pc = "getMeta"
    /\ \E ok \in CallOutcomes :
          IF ok
          THEN /\ cr' = [cr EXCEPT ![c].pc = "insert"]
               /\ UNCHANGED <<sheet, failures>>
          ELSE CreateFails(c)
    /\ UNCHANGED <<wh, emitted, NODE_ENV, CASSO_SECRET, sheets, fn>>

\* batchUpdate insertDimension: an empty row becomes row 2
CreateInsert(c) ==
    /\ cr[c].pc = "insert"
    /\ \E ok \in CallOutcomes :
          IF ok
          THEN /\ sheet' = <<BlankRow>> \o sheet
               /\ cr' = [cr EXCEPT ![c].pc = "update"]
               /\ UNCHANGED failures
          ELSE CreateFails(c)
    /\ UNCHANGED <<wh, emitted, NODE_ENV, CASSO_SECRET, sheets, fn>>

\* values.update of orderRow at A2, then the response with the order code
CreateUpdate(c) ==
    /\ cr[c].pc = "update"
    /\ \E ok \in CallOutcomes :
          IF ok
          THEN /\ sheet' = UpdateRow(sheet, 1, ColA, OrderRow(cr[c].nextCode, cr[c].uid, cr[c].amount))
               /\ cr' = [cr EXCEPT ![c].pc = "done", ![c].status = 200,
                                   ![c].orderCode = PREFIX \o <<"-">> \o NumToString(cr[c].nextCode)]
               /\ UNCHANGED failures
          ELSE CreateFails(c)
    /\ UNCHANGED <<wh, emitted, NODE_ENV, CASSO_SECRET, sheets, fn>>

---------------------------------------------------------------------------
(* POST /casso-webhook *)

\* Number(v): NaN for what is no number
NumberOf(v) ==
    CASE v[1] = "num"  -> v[2]
      [] v[1] = "null" -> 0
      [] v[1] = "bool" -> IF v[2] THEN 1 ELSE 0
      [] v[1] = "str"  -> LET t == Trim(v[2])
                          IN IF t = <<>> THEN 0
                             ELSE IF \A i \in 1..Len(t) : IsDigit(t[i]) THEN DigitsValue(t)
                             ELSE NaN
      [] OTHER         -> NaN

\* String(v ?? "")
StringOrEmpty(v) ==
    CASE v[1] = "undef" -> <<>>
      [] v[1] = "null"  -> <<>>
      [] v[1] = "num"   -> NumToString(v[2])
      [] v[1] = "str"   -> v[2]
      [] v[1] = "bool"  -> IF v[2] THEN <<"true">> ELSE <<"false">>
      [] OTHER          -> <<"[object Object]">>

\* express.json({ verify }): <<status, req.body, req.rawBody>>.  A request
\* without a body passes with body {} and no rawBody; a body that is not JSON,
\* or whose JSON is neither an object nor an array (strict mode), is answered
\* 400 by Express and never reaches the handler.
ExpressJson(rawBody) ==
    LET parsed == JSONparse(rawBody)
    IN IF rawBody[1] = "undef" THEN <<0, JObj(<<>>), UNDEF>>
       ELSE IF parsed[1] /\ (IsObj(parsed[2]) \/ IsArr(parsed[2])) THEN <<0, parsed[2], rawBody>>
       ELSE <<400, UNDEF, rawBody>>

IdleWebhook ==
    [pc |-> "idle", rawBody |-> UNDEF, signature |-> UNDEF,
     desc |-> <<>>, orderCode |-> <<>>, amount |-> 0, txId |-> <<>>, rowNumber |-> 0,
     status |-> 0, body |-> "",
     \* history of the request, for the properties: the verification's result,
     \* the Sheets reads and writes made, the code and the status in the row
     \* the write changed, the emits, the deliveries answered before this one
     \* arrived, and the orders awaiting payment when it arrived
     ok |-> "", reads |-> 0, writes |-> 0, hit |-> <<>>, prev |-> <<>>, emits |-> 0,
     after |-> {}, awaiting |-> {}]

\* The handler from its first line to the first await (lines 159 to 192),
\* in four stages: where it goes next, and the locals it has set.  A
\* TypeError raised on the way lands in the catch block, which answers
\* { success: true }.
NoLocals == [desc |-> <<>>, orderCode |-> <<>>, amount |-> 0, txId |-> <<>>]

\* res.json({ success: true }) before any Sheets call
Answered(ok) == [pc |-> "done", status |-> 200, body |-> "success", ok |-> ok] @@ NoLocals

\* lines 188 to 192: the locals of a matched description
Matched(ok, tx, desc, match) ==
    IF ~match[1] THEN Answered(ok)
    ELSE [pc |-> "get", status |-> 0, body |-> "", ok |-> ok,
          desc |-> desc, orderCode |-> match[2],
          amount |-> IF NumberOf(Get(tx, KeyAmount)) = NaN THEN 0 ELSE NumberOf(Get(tx, KeyAmount)),
          txId |-> StringOrEmpty(Get(tx, KeyId))]

\* lines 178 to 186: desc = tx.description || "", and its match
Described(ok, tx, description) ==
    IF ~Truthy(description) THEN Matched(ok, tx, <<>>, DescMatch(<<>>))
    ELSE IF ~IsStr(description) THEN Answered(ok)        \* desc.match is not a function
    ELSE Matched(ok, tx, description[2], DescMatch(description[2]))

\* a handler that tests only for the presence of data, not the error sentinel
Verified_NoErrorTest(ok, body) ==
    IF ok = "throw" THEN Answered(ok)
    ELSE IF ok = "false" /\ NODE_ENV # "development" THEN Answered(ok)
    ELSE IF ~Truthy(Get(body, KeyData)) THEN Answered(ok)
    ELSE Described(ok, Get(body, KeyData), Get(Get(body, KeyData), KeyDescription))

\* a handler without the signature gate of line 170
Verified_NoGate(ok, body) ==
    IF ok = "throw" THEN Answered(ok)
    ELSE IF ~(IsNum(Get(body, KeyError)) /\ Get(body, KeyError)[2] = 0) \/ ~Truthy(Get(body, KeyData))
         THEN Answered(ok)
    ELSE Described(ok, Get(body, KeyData), Get(Get(body, KeyData), KeyDescription))

\* lines 170 to 176: the signature gate and the success-event gate
Verified(ok, body) ==
    IF ok = "throw" THEN Answered(ok)
    ELSE IF ok = "false" /\ NODE_ENV # "development" THEN Answered(ok)
    ELSE IF ~(IsNum(Get(body, KeyError)) /\ Get(body, KeyError)[2] = 0) \/ ~Truthy(Get(body, KeyData))
         THEN Answered(ok)
    ELSE Described(ok, Get(body, KeyData), Get(Get(body, KeyData), KeyDescription))

\* lines 153 to 168: the body parser, req.rawBody.length, and the verification
Received(mw, signature) ==
    IF mw[1] = 400 THEN [pc |-> "done", status |-> 400, body |-> "error", ok |-> ""] @@ NoLocals
    ELSE IF mw[3][1] = "undef" THEN Answered("")         \* req.rawBody.length of undefined
    ELSE Verified(verifyCassoSignature(mw[3], signature, CASSO_SECRET), mw[2])

\* line 192 with the locals h: values.get is sent, or, while sheets is
\* undefined, sheets.spreadsheets raises a TypeError and the catch block
\* answers { success: true }
SheetsUsed(h) ==
    IF h.pc = "get" /\ sheets = "undefined"
    THEN [h EXCEPT !.pc = "done", !.status = 200, !.body = "success"]
    ELSE h

HandlerStart(req) == SheetsUsed(Received(ExpressJson(req.rawBody), req.signature))

\* the codes of the orders the sheet shows as awaiting payment
AwaitingCodes == {sheet[i][ColA] : i \in {j \in 1..Len(sheet) : sheet[j][ColK] = AWAITING}}

\* the request record once the handler has run to its first await or response
Started(w, req, h, after, awaiting) ==
    [w EXCEPT !.pc = h.pc, !.rawBody = req.rawBody, !.signature = req.signature,
              !.desc = h.desc, !.orderCode = h.orderCode, !.amount = h.amount,
              !.txId = h.txId, !.status = h.status, !.body = h.body, !.ok = h.ok,
              !.after = after, !.awaiting = awaiting]

\* a delivery arrives and runs to its first await, or to its response
WebhookRequest(p, req) ==
    /\ wh[p].pc = "idle"
    /\ wh' = [wh EXCEPT ![p] =
                Started(@, req, HandlerStart(req), {q \in Webhooks : wh[q].pc = "done"},
                        AwaitingCodes)]
    /\ UNCHANGED <<sheet, cr, emitted, failures, NODE_ENV, CASSO_SECRET, sheets, fn>>

\* a catch block that answers with an error
WebhookCaught_Error(p) ==
    /\ wh' = [wh EXCEPT ![p].pc = "done", ![p].status = 500, ![p].body = "error"]
    /\ failures' = failures + 1

\* res.json({ success: true }) of the catch block after a rejected call
WebhookCaught(p) ==
    /\ wh' = [wh EXCEPT ![p].pc = "done", ![p].status = 200, ![p].body = "success"]
    /\ failures' = failures + 1

\* a handler that pays an order only with the amount the order expects
WebhookGet_AmountChecked(p) ==
    /\ wh[p].pc = "get"
    /\ \E ok \in CallOutcomes :
          IF ok
          THEN LET rowIndex == FindIndex(ValuesGet(ColM), wh[p].orderCode)
               IN /\ IF rowIndex # 0 /\ sheet[rowIndex][ColH] = NumToString(wh[p].amount)
                     THEN wh' = [wh EXCEPT ![p].pc = "update", ![p].rowNumber = rowIndex + 1,
                                           ![p].reads = @ + 1]
                     ELSE wh' = [wh EXCEPT ![p].pc = "done", ![p].status = 200,
                                           ![p].body = "success", ![p].reads = @ + 1]
                  /\ UNCHANGED failures
          ELSE WebhookCaught(p)
    /\ UNCHANGED <<sheet, cr, emitted, NODE_ENV, CASSO_SECRET, sheets, fn>>

\* values.get of A2:M answers; the row is looked up, and either the update
\* of K:M of that row number is sent or the request is answered
WebhookGet(p) ==
    /\ wh[p].pc = "get"
    /\ \E ok \in CallOutcomes :
          IF ok
          THEN LET rowIndex == FindIndex(ValuesGet(ColM), wh[p].orderCode)
               IN /\ IF rowIndex # 0
                     THEN wh' = [wh EXCEPT ![p].pc = "update", ![p].rowNumber = rowIndex + 1,
                                           ![p].reads = @ + 1]
                     ELSE wh' = [wh EXCEPT ![p].pc = "done", ![p].status = 200,
                                           ![p].body = "success", ![p].reads = @ + 1]
                  /\ UNCHANGED failures
          ELSE WebhookCaught(p)
    /\ UNCHANGED <<sheet, cr, emitted, NODE_ENV, CASSO_SECRET, sheets, fn>>

\* a handler that goes on to the notification when the update was rejected
WebhookUpdate_EmitOnFailure(p) ==
    /\ wh[p].pc = "update"
    /\ \E ok \in CallOutcomes :
          IF ok
          THEN LET n == wh[p].rowNumber - 1
               IN /\ sheet' = UpdateRow(sheet, n, ColK,
                                 <<PAID, NumToString(wh[p].amount), wh[p].txId>>)
                  /\ wh' = [wh EXCEPT ![p].pc = "emit", ![p].writes = @ + 1,
                                      ![p].hit = sheet[n][ColA], ![p].prev = sheet[n][ColK]]
                  /\ UNCHANGED failures
          ELSE /\ wh' = [wh EXCEPT ![p].pc = "emit"]
               /\ failures' = failures + 1
               /\ UNCHANGED sheet
    /\ UNCHANGED <<cr, emitted, NODE_ENV, CASSO_SECRET, sheets, fn>>

\* values.update of K<rowNumber>:M<rowNumber> is applied
WebhookUpdate(p) ==
    /\ wh[p].pc = "update"
    /\ \E ok \in CallOutcomes :
          IF ok
          THEN LET n == wh[p].rowNumber - 1
               IN /\ sheet' = UpdateRow(sheet, n, ColK,
                                 <<PAID, NumToString(wh[p].amount), wh[p].txId>>)
                  /\ wh' = [wh EXCEPT ![p].pc = "emit", ![p].writes = @ + 1,
                                      ![p].hit = sheet[n][ColA], ![p].prev = sheet[n][ColK]]
                  /\ UNCHANGED failures
          ELSE WebhookCaught(p) /\ UNCHANGED sheet
    /\ UNCHANGED <<cr, emitted, NODE_ENV, CASSO_SECRET, sheets, fn>>

\* the update has answered: io.emit("payment_success", ...) and the response
WebhookEmit(p) ==
    /\ wh[p].pc = "emit"
    /\ \E ok \in CallOutcomes :
          IF ok
          THEN /\ emitted' = Append(emitted,
                      [orderCode |-> PREFIX \o <<"-">> \o wh[p].orderCode, txId |-> wh[p].txId,
                       amount |-> wh[p].amount, desc |-> wh[p].desc])
               /\ wh' = [wh EXCEPT ![p].pc = "done", ![p].status = 200, ![p].body = "success",
                                   ![p].emits = @ + 1]
               /\ UNCHANGED failures
          ELSE WebhookCaught(p) /\ UNCHANGED emitted
    /\ UNCHANGED <<sheet, cr, NODE_ENV, CASSO_SECRET, sheets, fn>>

---------------------------------------------------------------------------
(* The server *)

\* no call of a function on its own has been made
NoCall == [op |-> "", rawBody |-> UNDEF, signature |-> UNDEF, secret |-> UNDEF, result |-> ""]

\* the deployment's configuration
EnvModes == {"development", "production"}
Secrets == {JStr(SecretK), UNDEF}

\* the async function of lines 29 to 32 resolves: sheets is assigned
InitSheets ==
    /\ sheets = "undefined"
    /\ sheets' = "ready"
    /\ UNCHANGED <<NODE_ENV, CASSO_SECRET, sheet, cr, wh, emitted, failures, fn>>

\* The state once the module has been evaluated: the server listens (line
\* 248) while initSheets is still pending.
Init ==
    /\ NODE_ENV \in EnvModes
    /\ CASSO_SECRET \in Secrets
    /\ sheet = <<>>
    /\ cr = [c \in Creates |-> IdleCreate]
    /\ wh = [p \in Webhooks |-> IdleWebhook]
    /\ emitted = <<>>
    /\ failures = 0
    /\ sheets = "undefined"
    /\ fn = NoCall

Next ==
    \/ InitSheets
    \/ \E c \in Creates, body \in CreateBodies : CreateRequest(c, body)
    \/ \E c \in Creates : CreateGetCodes(c)
    \/ \E c \in Creates : CreateGetMeta(c)
    \/ \E c \in Creates : CreateInsert(c)
    \/ \E c \in Creates : CreateUpdate(c)
    \/ \E p \in Webhooks, req \in Deliveries : WebhookRequest(p, req)
    \/ \E p \in Webhooks : WebhookGet(p)
    \/ \E p \in Webhooks : WebhookUpdate(p)
    \/ \E p \in Webhooks : WebhookEmit(p)

Spec == Init /\ [][Next]_vars

---------------------------------------------------------------------------
(* verifyCassoSignature called on its own *)

\* how many timestamps the calls draw from
NumTimestamps == 2

\* timestamps one byte apart: "17", "18", ...
Timestamps == {<<"1", Digits[7 + i]>> : i \in 1..NumTimestamps}

VerifySecrets == {JStr(SecretK), JStr(SecretJ), JStr(<<>>), UNDEF}

\* The { error, data } events a header is signed for: the paid transfer, the
\* same with error = 1 (one byte of the body changed, outside data), and the
\* same with amount 6 (one byte changed, inside data).
SignedEvents ==
    { <<JNum(0), Tx1>>,
      <<JNum(1), Tx1>>,
      <<JNum(0), Tx(JNum(7), JNum(6), Desc(<<"1">>))>> }

\* the raw bodies of the calls: those events, and bodies that are absent, no
\* JSON, or JSON that is no object
VerifyBodies ==
    {BodyText(e[1], e[2]) : e \in SignedEvents}
    \cup { JStr(<<Tok("{"), Tok("junk")>>),
           JStr(<<Tok("null")>>),
           JStr(<<TNum(<<"5">>)>>),
           JStr(<<Tok("["), Tok("]")>>),
           UNDEF }

\* the headers of the calls: "t=<t'>,v1=<digest of t and data under secret>"
\* for every event, secret and timestamps t, t'; and headers that are
\* absent, empty, lack t or v1, or hold a segment without "="
VerifyHeaders ==
    {SigHeader(t2, Sign(k, t, e[2])) : e \in SignedEvents, k \in {SecretK, SecretJ},
                                       t \in Timestamps, t2 \in Timestamps}
    \cup { UNDEF,
           JStr(<<>>),
           JStr(Chars(<<"t", "=", "1", "7">>)),
           JStr(Chars(<<"v", "1", "=", "a", "b">>)),
           JStr(Chars(<<"t", "=", "1", "7", ",", "v", "1">>)),
           JStr(Chars(<<"v", "1", "=", "a", "b", ",", "t", "=", "1", "7">>)) }

\* verifyCassoSignature(rawBody, signatureHeader, secret) is called
VerifyCall(rawBody, signatureHeader, secret) ==
    /\ fn = NoCall
    /\ fn' = [op |-> "verify", rawBody |-> rawBody, signature |-> signatureHeader,
              secret |-> secret,
              result |-> verifyCassoSignature(rawBody, signatureHeader, secret)]
    /\ UNCHANGED <<NODE_ENV, CASSO_SECRET, sheet, cr, wh, emitted, failures, sheets>>

\* the earlier revision is called
VerifySha256Call(rawBody, signatureHeader, secret) ==
    /\ fn = NoCall
    /\ fn' = [op |-> "verifySha256", rawBody |-> rawBody, signature |-> signatureHeader,
              secret |-> secret,
              result |-> verifyCassoSignatureSha256(rawBody, signatureHeader, secret)]
    /\ UNCHANGED <<NODE_ENV, CASSO_SECRET, sheet, cr, wh, emitted, failures, sheets>>

NextVerify ==
    \/ \E b \in VerifyBodies, h \in VerifyHeaders, k \in VerifySecrets : VerifyCall(b, h, k)
    \/ \E b \in VerifyBodies, h \in VerifyHeaders, k \in VerifySecrets : VerifySha256Call(b, h, k)

SpecVerify == Init /\ [][NextVerify]_vars

---------------------------------------------------------------------------
(* The description parser called on its own *)

\* what a description is put together from: text before the code, the
\* prefix in several letter cases or none, a separator, the digits, and text
\* after them
DescLeads == {<<>>, <<"p", "a", "y", " ">>}
DescPrefixes == {<<>>, PREFIX, <<"m", "e", "o", "s", "t", "o", "r", "e">>,
                 <<"M", "e", "o", "S", "t", "o", "r", "e">>}
DescSeparators == {<<>>, <<"-">>, <<" ">>}
DescDigits == {<<>>, <<"1">>, <<"0", "0", "7">>, <<"4", "8", "8", "9">>}
DescTrails == {<<>>, <<" ", "o", "k">>, <<" ", "9", "9">>}

Descriptions ==
    {l \o p \o sp \o d \o t : l \in DescLeads, p \in DescPrefixes, sp \in DescSeparators,
                              d \in DescDigits, t \in DescTrails}

\* desc.match(...) of the handler is evaluated on a description
DescMatchCall(desc) ==
    /\ fn = NoCall
    /\ fn' = [op |-> "descMatch", rawBody |-> desc, signature |-> UNDEF, secret |-> UNDEF,
              result |-> DescMatch(desc)]
    /\ UNCHANGED <<NODE_ENV, CASSO_SECRET, sheet, cr, wh, emitted, failures, sheets>>

\* the earlier revision's desc.match(...) is evaluated on the trimmed description
DescMatchLooseCall(desc) ==
    /\ fn = NoCall
    /\ fn' = [op |-> "descMatchLoose", rawBody |-> desc, signature |-> UNDEF, secret |-> UNDEF,
              result |-> DescMatchLoose(Trim(desc))]
    /\ UNCHANGED <<NODE_ENV, CASSO_SECRET, sheet, cr, wh, emitted, failures, sheets>>

NextParse ==
    \/ \E desc \in Descriptions : DescMatchCall(desc)
    \/ \E desc \in Descriptions : DescMatchLooseCall(desc)

SpecParse == Init /\ [][NextParse]_vars

---------------------------------------------------------------------------
(* The canonicalization called on its own *)

\* the orders in which the members of the set S can be listed
PermsOf(S) ==
    {f \in [1..Cardinality(S) -> S] : \A i, j \in 1..Cardinality(S) : f[i] = f[j] => i = j}

\* an object in its two key orders, arrays that hold it, and a number
InnerObjects == {JObj(f) : f \in PermsOf({<<<<"b">>, JNum(1)>>, <<<<"a">>, JNULL>>})}
NestedValues ==
    InnerObjects
    \cup {JArr(<<o, JNum(1)>>) : o \in InnerObjects}
    \cup {JArr(<<JNum(1), o>>) : o \in InnerObjects}
    \cup {JNum(1)}

\* the texts an aggregator can send for data: the members id, amount, b,
\* "10" and "9" in every order, "10" holding each nested value
DataTexts ==
    {JStr(JSONstringify(JObj(f))) :
        f \in UNION {PermsOf({<<KeyId, JNum(7)>>, <<KeyAmount, JNum(5)>>, <<<<"b">>, JNULL>>,
                               <<<<"1", "0">>, n>>, <<<<"9">>, JStr(<<"a">>)>>}) :
                        n \in NestedValues}}
    \cup {JStr(JSONstringify(n)) : n \in NestedValues}

\* the structures canonicalized: what JSON.parse makes of those texts
CanonInputs == {JSONparse(t)[2] : t \in DataTexts}

\* sortObjDataByKey(data) is called
SortCall(data) ==
    /\ fn = NoCall
    /\ fn' = [op |-> "sort", rawBody |-> data, signature |-> UNDEF, secret |-> UNDEF,
              result |-> sortObjDataByKey(data)]
    /\ UNCHANGED <<NODE_ENV, CASSO_SECRET, sheet, cr, wh, emitted, failures, sheets>>

\* the earlier revision's normalizeValues(obj) is called
NormalizeCall(obj) ==
    /\ fn = NoCall
    /\ fn' = [op |-> "normalize", rawBody |-> obj, signature |-> UNDEF, secret |-> UNDEF,
              result |-> normalizeValues(obj)]
    /\ UNCHANGED <<NODE_ENV, CASSO_SECRET, sheet, cr, wh, emitted, failures, sheets>>

NextCanon ==
    \/ \E data \in CanonInputs : SortCall(data)
    \/ \E obj \in CanonInputs : NormalizeCall(obj)

SpecCanon == Init /\ [][NextCanon]_vars

---------------------------------------------------------------------------
(* The webhook relay of the earlier revision: it verifies the raw body, and *)
(* after the ledger write it posts the payment to the main backend          *)

\* the [k, v] entries kept by .filter(([k, v]) => k && v), k and v trimmed
FilteredEntries(signatureHeader) ==
    SelectSeq(Entries(signatureHeader),
              LAMBDA e : /\ TrimToks(e[1]) # <<>>
                         /\ e[2][1] # "undef"
                         /\ TrimToks(e[2][2]) # <<>>)

\* verifyCassoSignature of the relay: HMAC-SHA256 of "<t>.<rawBody>"
verifyCassoSignatureRaw(rawBody, signatureHeader, secret) ==
    IF ~Truthy(signatureHeader) \/ ~Truthy(secret) THEN "false"
    ELSE IF Part(FilteredEntries(signatureHeader[2]), <<"t">>) = <<>>
            \/ Part(FilteredEntries(signatureHeader[2]), <<"v", "1">>) = <<>>
    THEN "false"
    ELSE IF createHmac("sha256", secret[2],
                       <<Part(FilteredEntries(signatureHeader[2]), <<"t">>), rawBody>>)
              = Part(FilteredEntries(signatureHeader[2]), <<"v", "1">>)
    THEN "true" ELSE "false"

\* desc = tx.description?.trim() || "", and its match
RelayDescribed(ok, tx, description) ==
    IF description[1] = "undef" \/ description[1] = "null"
    THEN Matched(ok, tx, <<>>, DescMatchLoose(<<>>))
    ELSE IF ~IsStr(description) THEN Answered(ok)        \* trim is not a function
    ELSE Matched(ok, tx, Trim(description[2]), DescMatchLoose(Trim(description[2])))

\* the signature gate and the success-event gate
RelayVerified(ok, body) ==
    IF ok # "true" THEN Answered(ok)
    ELSE IF ~(IsNum(Get(body, KeyError)) /\ Get(body, KeyError)[2] = 0) \/ ~Truthy(Get(body, KeyData))
         THEN Answered(ok)
    ELSE RelayDescribed(ok, Get(body, KeyData), Get(Get(body, KeyData), KeyDescription))

\* the body parser and the verification
RelayReceived(mw, signature) ==
    IF mw[1] = 400 THEN [pc |-> "done", status |-> 400, body |-> "error", ok |-> ""] @@ NoLocals
    ELSE RelayVerified(verifyCassoSignatureRaw(mw[3], signature, CASSO_SECRET), mw[2])

RelayStart(req) == RelayReceived(ExpressJson(req.rawBody), req.signature)

\* a delivery of { error, data } signed over its raw body with `secret`
RelayDelivery(secret, error, data) ==
    [rawBody |-> BodyText(error, data),
     signature |-> SigHeader(<<"1", "7">>,
                      createHmac("sha256", secret, <<Chars(<<"1", "7">>), BodyText(error, data)>>))]

\* The deliveries of the relay: a paid transfer for order 1, one for order 2,
\* a forged copy of the first, a failed transfer, and a transfer whose
\* description is the bare code.
RelayDeliveries ==
    { RelayDelivery(SecretK, JNum(0), Tx1),
      RelayDelivery(SecretK, JNum(0), Tx2),
      RelayDelivery(SecretJ, JNum(0), Tx1),
      RelayDelivery(SecretK, JNum(1), Tx1),
      RelayDelivery(SecretK, JNum(0), Tx(JNum(9), JNum(5), JStr(<<" ", "1">>))) }

\* a delivery arrives and runs to its first await, or to its response
RelayRequest(p, req) ==
    /\ wh[p].pc = "idle"
    /\ wh' = [wh EXCEPT ![p] =
                Started(@, req, RelayStart(req), {q \in Webhooks : wh[q].pc = "done"},
                        AwaitingCodes)]
    /\ UNCHANGED <<sheet, cr, emitted, failures, NODE_ENV, CASSO_SECRET, sheets, fn>>

\* the update has answered: axios.post to the main backend is sent and awaited
RelaySend(p) ==
    /\ wh[p].pc = "emit"
    /\ \E ok \in CallOutcomes :
          IF ok
          THEN wh' = [wh EXCEPT ![p].pc = "notify"] /\ UNCHANGED failures
          ELSE WebhookCaught(p)
    /\ UNCHANGED <<sheet, cr, emitted, NODE_ENV, CASSO_SECRET, sheets, fn>>

\* the main backend answers the post, with success or with an error that the
\* inner catch logs; then res.json({ success: true })
RelayNotified(p) ==
    /\ wh[p].pc = "notify"
    /\ \E delivered \in BOOLEAN :
          IF delivered
          THEN /\ emitted' = Append(emitted,
                      [orderCode |-> wh[p].orderCode, txId |-> wh[p].txId,
                       amount |-> wh[p].amount, desc |-> wh[p].desc])
               /\ wh' = [wh EXCEPT ![p].pc = "done", ![p].status = 200, ![p].body = "success",
                                   ![p].emits = @ + 1]
          ELSE /\ wh' = [wh EXCEPT ![p].pc = "done", ![p].status = 200, ![p].body = "success"]
               /\ UNCHANGED emitted
    /\ UNCHANGED <<sheet, cr, failures, NODE_ENV, CASSO_SECRET, sheets, fn>>

\* the ledger the relay works on: empty, or holding order 1 awaiting payment
\* as create-order of the main backend writes it
InitRelay ==
    /\ NODE_ENV \in EnvModes
    /\ CASSO_SECRET \in Secrets
    /\ sheet \in {<<>>, <<OrderRow(1, JStr(<<"u", "1">>), JNum(5)) \o <<<<>>>> >>}
    /\ cr = [c \in Creates |-> IdleCreate]
    /\ wh = [p \in Webhooks |-> IdleWebhook]
    /\ emitted = <<>>
    /\ failures = 0
    /\ sheets = "ready"
    /\ fn = NoCall

NextRelay ==
    \/ \E p \in Webhooks, req \in RelayDeliveries : RelayRequest(p, req)
    \/ \E p \in Webhooks : WebhookGet(p)
    \/ \E p \in Webhooks : WebhookUpdate(p)
    \/ \E p \in Webhooks : RelaySend(p)
    \/ \E p \in Webhooks : RelayNotified(p)

\* The Sheets calls answer and the handler's continuations run; nothing
\* makes the main backend answer the post (axios is given no timeout).
SpecRelay ==
    /\ InitRelay /\ [][NextRelay]_vars
    /\ \A p \in Webhooks :
          WF_vars(WebhookGet(p)) /\ WF_vars(WebhookUpdate(p)) /\ WF_vars(RelaySend(p))

---------------------------------------------------------------------------
(* The server handling one request at a time, every call succeeding *)

\* no request is between its arrival and its response
Quiet ==
    /\ \A c \in Creates : cr[c].pc \in {"idle", "done"}
    /\ \A p \in Webhooks : wh[p].pc \in {"idle", "done"}

InitSeq ==
    /\ NODE_ENV \in EnvModes
    /\ CASSO_SECRET \in Secrets
    /\ sheet = <<>>
    /\ cr = [c \in Creates |-> IdleCreate]
    /\ wh = [p \in Webhooks |-> IdleWebhook]
    /\ emitted = <<>>
    /\ failures = MaxFailures
    /\ sheets = "ready"
    /\ fn = NoCall

NextSeq ==
    \/ \E c \in Creates, body \in CreateBodies : Quiet /\ CreateRequest(c, body)
    \/ \E c \in Creates : CreateGetCodes(c)
    \/ \E c \in Creates : CreateGetMeta(c)
    \/ \E c \in Creates : CreateInsert(c)
    \/ \E c \in Creates : CreateUpdate(c)
    \/ \E p \in Webhooks, req \in Deliveries : Quiet /\ WebhookRequest(p, req)
    \/ \E p \in Webhooks : WebhookGet(p)
    \/ \E p \in Webhooks : WebhookUpdate(p)
    \/ \E p \in Webhooks : WebhookEmit(p)

SpecSeq == InitSeq /\ [][NextSeq]_vars

---------------------------------------------------------------------------
(* Properties *)

\* deliveries p and q carry the same event
SameRequest(p, q) == wh[p].rawBody = wh[q].rawBody /\ wh[p].signature = wh[q].signature

\* the rows of the sheet whose code is `code`
RowsOf(code) == {i \in 1..Len(sheet) : sheet[i][ColA] = code}

\* the emitted notifications that carry transaction reference txId
NotificationsOf(txId) == {i \in 1..Len(emitted) : emitted[i].txId = txId}

\* C1 (checked under SpecSeq): when a delivery q of an event arrives after a
\* delivery p of the same event has been answered, and p made the
\* AwaitingPayment -> Paid write, then q writes nothing to the ledger and emits
\* nothing, and the event has exactly one notification.
C1_ReplayIsIgnored ==
    \A p, q \in Webhooks :
        ( /\ p # q
          /\ SameRequest(p, q)
          /\ p \in wh[q].after
          /\ wh[p].writes = 1 /\ wh[p].prev = AWAITING /\ wh[p].emits = 1
          /\ wh[q].pc = "done" )
        => /\ wh[q].writes = 0
           /\ wh[q].emits = 0
           /\ Cardinality(NotificationsOf(wh[p].txId)) = 1

\* C2: of two deliveries of the same event handled concurrently (neither
\* arrived after the other was answered), at most one makes the ledger write
\* and at most one emits a notification.
C2_OneWriteOneNotification ==
    \A p, q \in Webhooks :
        ( /\ p # q
          /\ SameRequest(p, q)
          /\ p \notin wh[q].after /\ q \notin wh[p].after )
        => /\ wh[p].writes + wh[q].writes <= 1
           /\ wh[p].emits + wh[q].emits <= 1

\* C3: the row a webhook's ledger write changes is the row whose code is the
\* matched order code at the moment of the write.
C3_WriteHitsMatchedRow ==
    \A p \in Webhooks : wh[p].writes = 1 => wh[p].hit = wh[p].orderCode

\* C4: two create-order requests never answer with the same order code.
C4_CodesAreUnique ==
    \A c, d \in Creates :
        (c # d /\ cr[c].status = 200 /\ cr[d].status = 200)
        => cr[c].orderCode # cr[d].orderCode

\* C5: every answered webhook request was answered 200 { success: true }.
C5_AlwaysAcknowledged ==
    \A p \in Webhooks : wh[p].pc = "done" => (wh[p].status = 200 /\ wh[p].body = "success")

\* C6: outside development mode, a delivery whose signature did not verify
\* is answered without any ledger read, ledger write or notification; and in
\* every mode a request that has reached a ledger operation has been verified.
C6_RejectedBeforeLedger ==
    \A p \in Webhooks :
        /\ (NODE_ENV # "development" /\ wh[p].pc # "idle" /\ wh[p].ok # "true")
           => ( /\ wh[p].pc = "done"
                /\ wh[p].reads = 0 /\ wh[p].writes = 0 /\ wh[p].emits = 0
                /\ wh[p].rowNumber = 0 )
        /\ (wh[p].pc \in {"get", "update", "emit"} \/ wh[p].reads > 0 \/ wh[p].writes > 0)
           => wh[p].ok = "true"

\* C6 witness: in production, with order 1 awaiting payment in the ledger, the
\* forged delivery naming order 1 has been rejected.
C6_Witness ==
    /\ NODE_ENV = "production"
    /\ CASSO_SECRET = JStr(SecretK)
    /\ \E p \in Webhooks :
          /\ wh[p].pc = "done" /\ wh[p].ok = "false"
          /\ wh[p].rawBody = BodyText(JNum(0), Tx1)
          /\ <<"1">> \in wh[p].awaiting
    /\ \E i \in RowsOf(<<"1">>) : sheet[i][ColK] = AWAITING

\* two texts of the same length that differ in exactly one character
OneCharApart(a, b) ==
    /\ Len(a) = Len(b)
    /\ Cardinality({i \in 1..Len(a) : a[i] # b[i]}) = 1

\* two JSON texts that differ in exactly one byte: one token differs, by one
\* character of its text
OneByteApart(x, y) ==
    /\ x[1] = "str" /\ y[1] = "str"
    /\ Len(x[2]) = Len(y[2])
    /\ Cardinality({i \in 1..Len(x[2]) : x[2][i] # y[2][i]}) = 1
    /\ \A i \in 1..Len(x[2]) :
          x[2][i] # y[2][i] => (x[2][i][1] = y[2][i][1] /\ OneCharApart(x[2][i][2], y[2][i][2]))

\* C7 (checked under SpecVerify): outside development mode, for an event
\* signed with secret k at timestamp t, the call with that body, header and
\* secret verifies; and the call fails when one byte of the body, of the
\* header's timestamp, or of the secret is changed.
C7_SignatureSound ==
    (fn.op = "verify" /\ NODE_ENV # "development") =>
        \A e \in SignedEvents, k \in {SecretK, SecretJ}, t \in Timestamps :
            /\ ( /\ fn.rawBody = BodyText(e[1], e[2])
                 /\ fn.signature = SigHeader(t, Sign(k, t, e[2]))
                 /\ fn.secret = JStr(k) )
               => fn.result = "true"
            /\ ( /\ OneByteApart(fn.rawBody, BodyText(e[1], e[2]))
                 /\ fn.signature = SigHeader(t, Sign(k, t, e[2]))
                 /\ fn.secret = JStr(k) )
               => fn.result = "false"
            /\ ( /\ fn.rawBody = BodyText(e[1], e[2])
                 /\ \E t2 \in Timestamps :
                       OneCharApart(t2, t) /\ fn.signature = SigHeader(t2, Sign(k, t, e[2]))
                 /\ fn.secret = JStr(k) )
               => fn.result = "false"
            /\ ( /\ fn.rawBody = BodyText(e[1], e[2])
                 /\ fn.signature = SigHeader(t, Sign(k, t, e[2]))
                 /\ fn.secret[1] = "str" /\ OneCharApart(fn.secret[2], k) )
               => fn.result = "false"

\* C8: a delivery whose signature does not pass the check causes no ledger
\* write and no notification, whatever NODE_ENV is (the flag alone does not
\* switch the check off).
C8_FlagAloneDoesNotBypass ==
    \A p \in Webhooks :
        ( /\ wh[p].pc # "idle"
          /\ SignatureCheck(wh[p].rawBody, wh[p].signature, CASSO_SECRET) = "false" )
        => (wh[p].writes = 0 /\ wh[p].emits = 0)

\* C9 (checked under SpecVerify): a call of verifyCassoSignature returns a
\* boolean; it never raises.
C9_VerifyNeverRaises ==
    fn.op = "verify" => fn.result \in {"true", "false"}

\* the delivery p carries the event { error: 0, data: tx } with a signature
\* that passes the check, or the check is bypassed
ValidDeliveryOf(p, tx) ==
    /\ wh[p].rawBody = BodyText(JNum(0), tx)
    /\ \/ NODE_ENV = "development"
       \/ /\ CASSO_SECRET = JStr(SecretK)
          /\ wh[p].signature = SigHeader(<<"1", "7">>, Sign(SecretK, <<"1", "7">>, tx))

\* the ledger and the notifications show the payment of order `code` by tx
PaidBy(code, tx) ==
    /\ \E i \in RowsOf(code) :
          /\ sheet[i][ColK] = PAID
          /\ sheet[i][ColL] = NumToString(Get(tx, KeyAmount)[2])
          /\ sheet[i][ColM] = NumToString(Get(tx, KeyId)[2])
    /\ \E i \in 1..Len(emitted) :
          emitted[i] = [orderCode |-> PREFIX \o <<"-">> \o code,
                        txId |-> NumToString(Get(tx, KeyId)[2]),
                        amount |-> Get(tx, KeyAmount)[2],
                        desc |-> Get(tx, KeyDescription)[2]]

\* no delivery has arrived since delivery p was answered
NoLaterDelivery(p) == \A q \in Webhooks : p \notin wh[q].after

\* C10 (checked under SpecSeq: one request at a time, no failing call): the
\* first order created gets code 1 and every created order a row awaiting
\* payment until it is paid; and once a valid delivery of a success event
\* whose description names an order that was awaiting payment has been
\* answered, and until the next delivery arrives, that order is Paid with the
\* transaction's amount and id, and the delivery has emitted exactly one
\* notification, which carries "MEOSTORE-<code>", the id, the amount and the
\* description.
C10_HappyPath ==
    /\ \A c \in Creates :
          cr[c].status = 200 =>
              /\ cr[c].orderCode = PREFIX \o <<"-">> \o NumToString(cr[c].nextCode)
              /\ \E d \in Creates : cr[d].status = 200 /\ cr[d].nextCode = 1
              /\ \E i \in RowsOf(NumToString(cr[c].nextCode)) :
                    /\ sheet[i][ColK] \in {AWAITING, PAID}
                    /\ sheet[i][ColC] = CellText(cr[c].uid)
                    /\ sheet[i][ColH] = CellText(cr[c].amount)
    /\ \A p \in Webhooks :
          /\ ( /\ wh[p].pc = "done" /\ ValidDeliveryOf(p, Tx1) /\ <<"1">> \in wh[p].awaiting
               /\ NoLaterDelivery(p) )
             => (PaidBy(<<"1">>, Tx1) /\ wh[p].emits = 1)
          /\ ( /\ wh[p].pc = "done" /\ ValidDeliveryOf(p, Tx2) /\ <<"2">> \in wh[p].awaiting
               /\ NoLaterDelivery(p) )
             => (PaidBy(<<"2">>, Tx2) /\ wh[p].emits = 1)

\* C10 witness: order 1 was created on the empty ledger, the valid delivery
\* for it has been answered, and the ledger shows it Paid.
C10_Witness ==
    /\ NODE_ENV = "production"
    /\ \E c \in Creates : cr[c].status = 200 /\ cr[c].nextCode = 1
    /\ \E p \in Webhooks :
          /\ wh[p].pc = "done" /\ ValidDeliveryOf(p, Tx1) /\ <<"1">> \in wh[p].awaiting
          /\ NoLaterDelivery(p)
          /\ wh[p].emits = 1
    /\ PaidBy(<<"1">>, Tx1)
    /\ Len(emitted) = 1

\* C11: when the values.get of a verified webhook answers and no row of the
\* ledger has the extracted order code, that step changes no ledger row and
\* emits nothing and the request is answered 200 { success: true }; such a
\* request has made no ledger write and no notification.
C11_UnknownOrderLeavesLedger ==
    [][\A p \in Webhooks :
          ( /\ wh[p].pc = "get" /\ wh'[p].pc # "get"
            /\ failures' = failures
            /\ RowsOf(wh[p].orderCode) = {} )
          => ( /\ sheet' = sheet /\ emitted' = emitted
               /\ wh'[p].pc = "done" /\ wh'[p].status = 200 /\ wh'[p].body = "success"
               /\ wh'[p].writes = 0 /\ wh'[p].emits = 0 )]_vars

\* C11 witness: in production, with order 1 in the ledger, the verified
\* delivery that names order 2 has been answered after its read.
C11_Witness ==
    /\ NODE_ENV = "production"
    /\ RowsOf(<<"1">>) # {} /\ RowsOf(<<"2">>) = {}
    /\ \E p \in Webhooks :
          /\ wh[p].pc = "done" /\ wh[p].ok = "true" /\ wh[p].orderCode = <<"2">>
          /\ wh[p].reads = 1 /\ wh[p].rowNumber = 0 /\ wh[p].writes = 0
          /\ wh[p].status = 200

\* C12: every row the ledger shows as Paid has a non-empty paid amount
\* (column L) and a non-empty transaction reference (column M), and every row
\* still awaiting payment has both cells empty.
C12_PaidHasAmountAndRef ==
    \A i \in 1..Len(sheet) :
        /\ sheet[i][ColK] = PAID => (sheet[i][ColL] # <<>> /\ sheet[i][ColM] # <<>>)
        /\ sheet[i][ColK] = AWAITING => (sheet[i][ColL] = <<>> /\ sheet[i][ColM] = <<>>)

\* the payment status the ledger `rows` shows for order `code`: column K of
\* the first row with that code (the row a lookup finds), << >> when none
StatusOf(rows, code) ==
    IF \E i \in 1..Len(rows) : rows[i][ColA] = code
    THEN rows[CHOOSE i \in 1..Len(rows) :
                 rows[i][ColA] = code /\ \A j \in 1..(i - 1) : rows[j][ColA] # code][ColK]
    ELSE <<>>

\* the codes create-order can allocate within the bounds
OrderCodes == {NumToString(n) : n \in 1..NumCreate}

\* C13: once the ledger shows order c as Paid, no step makes it show c as
\* awaiting payment; and at most one ledger write takes order c from awaiting
\* payment to Paid.
C13_PaidIsOneWay ==
    /\ [][\A c \in OrderCodes :
             StatusOf(sheet, c) = PAID => StatusOf(sheet', c) # AWAITING]_vars
    /\ [](\A c \in OrderCodes :
             Cardinality({p \in Webhooks :
                 wh[p].writes = 1 /\ wh[p].hit = c /\ wh[p].prev = AWAITING}) <= 1)

\* C14: when a create-order request answers with code c the ledger has a row
\* with code c awaiting payment; the row its values.update fills held no
\* order (no order's row is overwritten by another order); and the ledger
\* keeps a row with code c for every answered request ever after.
C14_OrdersAreDurable ==
    /\ [][\A c \in Creates :
             (cr[c].status # 200 /\ cr'[c].status = 200)
             => ( /\ sheet[1][ColA] = <<>>
                  /\ \E i \in 1..Len(sheet') :
                        /\ sheet'[i][ColA] = NumToString(cr'[c].nextCode)
                        /\ sheet'[i][ColK] = AWAITING )]_vars
    /\ [](\A c \in Creates :
             cr[c].status = 200 => RowsOf(NumToString(cr[c].nextCode)) # {})

\* a description in one of the four accepted forms naming the code d: text
\* without digits, then the prefix (any letter case) followed by the digits
\* directly, after a hyphen or after a space, or the digits alone, then text
AcceptedForm(desc, d) ==
    /\ d # <<>>
    /\ \E l \in DescLeads, p \in DescPrefixes, sp \in DescSeparators, t \in DescTrails :
          /\ p = <<>> => sp = <<>>
          /\ desc = l \o p \o sp \o d \o t

\* C15 (checked under SpecParse): the handler's description parser returns
\* the code of a description in any of the four accepted forms, and no code
\* for a description without digits.
C15_ParserAcceptsFourForms ==
    fn.op = "descMatch" =>
        /\ \A d \in DescDigits : AcceptedForm(fn.rawBody, d) => fn.result = <<TRUE, d>>
        /\ (\A i \in 1..Len(fn.rawBody) : ~IsDigit(fn.rawBody[i])) => fn.result = <<FALSE, <<>>>>

\* x and y are the same structure up to the order of the keys inside their
\* objects, at any depth; array elements are compared in order
RECURSIVE SameUpToKeyOrder(_, _)
SameUpToKeyOrder(x, y) ==
    IF IsObj(x) /\ IsObj(y)
    THEN /\ Len(x[2]) = Len(y[2])
         /\ \A i \in 1..Len(x[2]) :
               HasKey(y, x[2][i][1]) /\ SameUpToKeyOrder(x[2][i][2], Get(y, x[2][i][1]))
    ELSE IF IsArr(x) /\ IsArr(y)
    THEN /\ Len(x[2]) = Len(y[2])
         /\ \A i \in 1..Len(x[2]) : SameUpToKeyOrder(x[2][i], y[2][i])
    ELSE x = y

\* C16 (checked under SpecCanon): canonicalizing a canonical structure
\* returns it unchanged; two structures serialize to the same string after
\* canonicalization when they differ only in the order of keys, and (for
\* sortObjDataByKey) to different strings otherwise, so that the order of
\* array elements is kept; an array's canonical form is the array of its
\* elements' canonical forms.
C16_CanonicalizationIdempotent ==
    /\ fn.op = "sort" =>
          /\ sortObjDataByKey(fn.result) = fn.result
          /\ \A y \in CanonInputs :
                SameUpToKeyOrder(fn.rawBody, y)
                <=> JSONstringify(sortObjDataByKey(y)) = JSONstringify(fn.result)
          /\ IsArr(fn.rawBody) =>
                fn.result = JArr([i \in 1..Len(fn.rawBody[2]) |-> sortObjDataByKey(fn.rawBody[2][i])])
    /\ fn.op = "normalize" =>
          /\ normalizeValues(fn.result) = fn.result
          /\ \A y \in CanonInputs :
                SameUpToKeyOrder(fn.rawBody, y)
                => JSONstringify(normalizeValues(y)) = JSONstringify(fn.result)
          /\ IsArr(fn.rawBody) =>
                fn.result = JArr([i \in 1..Len(fn.rawBody[2]) |-> normalizeValues(fn.rawBody[2][i])])

\* C16 witness: sortObjDataByKey was called on a structure that is not
\* canonical, holds an object inside an array, and has another key order
\* among the inputs.
C16_Witness ==
    /\ fn.op = "sort"
    /\ fn.result # fn.rawBody
    /\ IsArr(Get(fn.rawBody, <<"1", "0">>))
    /\ \E y \in CanonInputs : y # fn.rawBody /\ SameUpToKeyOrder(fn.rawBody, y)

\* C17: when io.emit fails after the ledger write, that step leaves the
\* ledger as it is (no rollback, no second write) and answers the webhook
\* 200 { success: true }; no request writes to the ledger more than once.
C17_EmitIsBestEffort ==
    /\ [][\A p \in Webhooks :
             (wh[p].pc = "emit" /\ wh'[p].pc = "done" /\ wh'[p].emits = wh[p].emits)
             => ( /\ sheet' = sheet
                  /\ wh'[p].writes = wh[p].writes
                  /\ wh'[p].status = 200 /\ wh'[p].body = "success" )]_vars
    /\ [](\A p \in Webhooks : wh[p].writes <= 1)

\* C17 witness: a delivery wrote Paid for order 1, its emit failed, and it
\* has been answered; the order is Paid.
C17_Witness ==
    \E p \in Webhooks :
        /\ wh[p].pc = "done" /\ wh[p].writes = 1 /\ wh[p].emits = 0
        /\ wh[p].hit = <<"1">> /\ wh[p].status = 200
        /\ StatusOf(sheet, <<"1">>) = PAID
        /\ emitted = <<>>

\* C18 (checked under SpecRelay): a webhook that has made its ledger write is
\* eventually answered, whether or not the notifier ever answers.
C18_AckDoesNotWaitForNotifier ==
    \A p \in Webhooks : (wh[p].writes = 1) ~> (wh[p].pc = "done")

\* the request body of delivery p as the body parser hands it to the handler
BodyOf(p) == JSONparse(wh[p].rawBody)[2]

\* the body declares an error sentinel other than the number 0, or has no
\* transaction data
NotASuccessEvent(body) ==
    \/ ~(IsNum(Get(body, KeyError)) /\ Get(body, KeyError)[2] = 0)
    \/ Get(body, KeyData)[1] \in {"undef", "null"}

\* C19: a verified webhook whose error sentinel is not 0 or whose data is
\* absent has been answered 200 { success: true } without a ledger read, a
\* ledger write or a notification.
C19_NonSuccessEventIgnored ==
    \A p \in Webhooks :
        (wh[p].pc # "idle" /\ wh[p].ok = "true" /\ NotASuccessEvent(BodyOf(p)))
        => ( /\ wh[p].pc = "done" /\ wh[p].status = 200 /\ wh[p].body = "success"
             /\ wh[p].reads = 0 /\ wh[p].writes = 0 /\ wh[p].emits = 0 )

\* C19 witness: in production, with order 1 awaiting payment, the verified
\* delivery of the failed transfer naming order 1 has been answered; and so
\* has a verified delivery without data.
C19_Witness ==
    /\ NODE_ENV = "production"
    /\ \E p \in Webhooks :
          /\ wh[p].pc = "done" /\ wh[p].ok = "true"
          /\ wh[p].rawBody = BodyText(JNum(1), Tx1)
          /\ <<"1">> \in wh[p].awaiting
    /\ \E q \in Webhooks :
          /\ wh[q].pc = "done" /\ wh[q].ok = "true"
          /\ Get(BodyOf(q), KeyData) = UNDEF /\ wh[q].rawBody # UNDEF

\* C20: a webhook's ledger write changes only the payment status, the paid
\* amount and the transaction reference of the row it writes: the code, uid,
\* expected amount, both creation timestamps (the display string in column G
\* and the ISO-8601 instant in column L) and the delivery status of that row
\* are the same before and after the write.
C20_WriteKeepsOrderFields ==
    [][\A p \in Webhooks :
          (wh[p].pc = "update" /\ wh'[p].writes = wh[p].writes + 1)
          => \A col \in {ColA, ColC, ColH, ColG, ColL, ColI} :
                sheet'[wh[p].rowNumber - 1][col] = sheet[wh[p].rowNumber - 1][col]]_vars

---------------------------------------------------------------------------
(* Reconciliation against a ledger that holds an order *)

\* transfers for order 1, which expects 5: with the code written with a
\* leading zero, and paying less, more, nothing, and an amount that is no number
TxLeadingZero == Tx(JNum(7), JNum(5), Desc(<<"0", "1">>))
TxLower == Tx(JNum(7), JNum(3), Desc(<<"1">>))
TxHigher == Tx(JNum(7), JNum(9), Desc(<<"1">>))
TxZero == Tx(JNum(7), JNum(0), Desc(<<"1">>))
TxNoNumber == Tx(JNum(7), JStr(<<"a", "b", "c">>), Desc(<<"1">>))

ReconDeliveries ==
    { Delivery(SecretK, JNum(0), Tx1),
      Delivery(SecretK, JNum(0), TxLeadingZero),
      Delivery(SecretK, JNum(0), TxLower),
      Delivery(SecretK, JNum(0), TxHigher),
      Delivery(SecretK, JNum(0), TxZero),
      Delivery(SecretK, JNum(0), TxNoNumber),
      Delivery(SecretJ, JNum(0), TxLower) }

\* the ledger holds order 1 awaiting payment, as create-order wrote it, and
\* the Sheets client is initialised
InitRecon ==
    /\ NODE_ENV \in EnvModes
    /\ CASSO_SECRET \in Secrets
    /\ sheet = <<OrderRow(1, JStr(<<"u", "1">>), JNum(5)) \o <<<<>>>> >>
    /\ cr = [c \in Creates |-> IdleCreate]
    /\ wh = [p \in Webhooks |-> IdleWebhook]
    /\ emitted = <<>>
    /\ failures = 0
    /\ sheets = "ready"
    /\ fn = NoCall

NextRecon ==
    \/ \E p \in Webhooks, req \in ReconDeliveries : WebhookRequest(p, req)
    \/ \E p \in Webhooks : WebhookGet(p)
    \/ \E p \in Webhooks : WebhookUpdate(p)
    \/ \E p \in Webhooks : WebhookEmit(p)

SpecRecon == InitRecon /\ [][NextRecon]_vars

\* the order codes of the ledger, as integers
LedgerCodes == {parseInt(sheet[i][ColA]) : i \in 1..Len(sheet)} \ {NaN}

\* C21 (checked under SpecRecon): the order reference taken from a description
\* is the integer its digit run denotes, and the lookup matches on that
\* integer: a delivery that passed the gates, whose digit run denotes the code
\* n of a ledger order and whose ledger calls all succeeded, has written to
\* the row of order n once it is answered, leading zeros or not.
C21_LookupByIntegerValue ==
    \A p \in Webhooks :
        ( /\ wh[p].pc = "done" /\ failures = 0
          /\ wh[p].orderCode # <<>>
          /\ DigitsValue(wh[p].orderCode) \in LedgerCodes )
        => (wh[p].writes = 1 /\ wh[p].hit = NumToString(DigitsValue(wh[p].orderCode)))

\* C22: a request emits its notification only after its own ledger write has
\* been applied: every step that broadcasts a notification is taken by a
\* request whose values.update has answered, the notification names that
\* request's order, and a request whose read or write was rejected (it has
\* made no write) never emits.
C22_EmitOnlyAfterWrite ==
    /\ [][Len(emitted') > Len(emitted) =>
            \E p \in Webhooks :
               /\ wh[p].pc = "emit" /\ wh[p].writes = 1
               /\ wh'[p].emits = wh[p].emits + 1
               /\ emitted'[Len(emitted')].orderCode = PREFIX \o <<"-">> \o wh[p].orderCode]_vars
    /\ [](\A p \in Webhooks :
             /\ wh[p].emits <= wh[p].writes
             /\ wh[p].writes = 0 => wh[p].emits = 0)

\* one delivery has written and emitted, and another, whose row was found,
\* had its write rejected and was answered without emitting
C22_Witness ==
    /\ \E p \in Webhooks : wh[p].pc = "done" /\ wh[p].writes = 1 /\ wh[p].emits = 1
    /\ \E q \in Webhooks :
          /\ wh[q].pc = "done" /\ wh[q].reads = 1 /\ wh[q].rowNumber > 0
          /\ wh[q].writes = 0 /\ wh[q].emits = 0
    /\ Len(emitted) = 1

\* the transfers of the model that name order 1
PaymentsOfOrder1 == {Tx1, TxLower, TxHigher, TxZero, TxNoNumber}

\* the amount a transfer is recorded with: its amount, 0 when that is no number
RecordedAmount(tx) == IF IsNum(Get(tx, KeyAmount)) THEN Get(tx, KeyAmount)[2] ELSE 0

\* C24 (checked under SpecRecon, where order 1 expects 5): the transfer's amount
\* is never compared with the amount the order expects.  A valid delivery of a
\* success event naming order 1, whose ledger calls all succeeded, has written
\* to the row of order 1 whether it pays less, more, nothing or an amount that
\* is no number (recorded as 0); and the write marks the row Paid, puts the
\* recorded amount in the paid-amount cell and leaves the expected amount as
\* it was.
C24_AmountIsNotCompared ==
    /\ [](\A p \in Webhooks, tx \in PaymentsOfOrder1 :
             (wh[p].pc = "done" /\ failures = 0 /\ ValidDeliveryOf(p, tx))
             => /\ wh[p].writes = 1 /\ wh[p].hit = <<"1">>
                /\ wh[p].amount = RecordedAmount(tx))
    /\ [][\A p \in Webhooks :
             (wh[p].pc = "update" /\ wh'[p].writes = wh[p].writes + 1)
             => /\ sheet'[wh[p].rowNumber - 1][ColK] = PAID
                /\ sheet'[wh[p].rowNumber - 1][ColL] = NumToString(wh[p].amount)
                /\ sheet'[wh[p].rowNumber - 1][ColH] = sheet[wh[p].rowNumber - 1][ColH]]_vars

\* order 1, which expects 5, has been paid by a transfer of 3 and by one whose
\* amount is no number, and shows the amount of one of them
C24_Witness ==
    /\ \E p \in Webhooks :
          wh[p].pc = "done" /\ ValidDeliveryOf(p, TxLower) /\ wh[p].writes = 1
    /\ \E q \in Webhooks :
          wh[q].pc = "done" /\ ValidDeliveryOf(q, TxNoNumber) /\ wh[q].writes = 1 /\ wh[q].amount = 0
    /\ sheet[1][ColA] = <<"1">> /\ sheet[1][ColK] = PAID
    /\ sheet[1][ColH] = <<"5">> /\ sheet[1][ColL] \in {<<"3">>, <<"0">>}

---------------------------------------------------------------------------
(* The server starting on a ledger that already holds an order *)

\* the module has been evaluated: the server listens, initSheets is pending,
\* and the sheet holds order 1 awaiting payment from an earlier run
InitStartup ==
    /\ NODE_ENV \in EnvModes
    /\ CASSO_SECRET \in Secrets
    /\ sheet = <<OrderRow(1, JStr(<<"u", "1">>), JNum(5)) \o <<<<>>>> >>
    /\ cr = [c \in Creates |-> IdleCreate]
    /\ wh = [p \in Webhooks |-> IdleWebhook]
    /\ emitted = <<>>
    /\ failures = 0
    /\ sheets = "undefined"
    /\ fn = NoCall

NextStartup ==
    \/ InitSheets
    \/ \E p \in Webhooks, req \in ReconDeliveries : WebhookRequest(p, req)
    \/ \E p \in Webhooks : WebhookGet(p)
    \/ \E p \in Webhooks : WebhookUpdate(p)
    \/ \E p \in Webhooks : WebhookEmit(p)

SpecStartup == InitStartup /\ [][NextStartup]_vars

\* C23 (checked under SpecStartup): no handler uses the Sheets client before
\* its initialisation has completed, so a valid delivery of a success event
\* for an order that was awaiting payment when it arrived, however soon after
\* the server started listening, and whose ledger calls did not fail, has
\* read the ledger and written to the order's row once it is answered.
C23_NoRequestBeforeSheetsReady ==
    \A p \in Webhooks :
        ( /\ wh[p].pc = "done" /\ failures = 0
          /\ ValidDeliveryOf(p, Tx1) /\ <<"1">> \in wh[p].awaiting )
        => (wh[p].reads = 1 /\ wh[p].writes = 1 /\ wh[p].hit = <<"1">>)

=============================================================================
